---- MODULE Spec2Model ----
(***************************************************************************)
(* A model of part11/models.py: the inverted index over a corpus of        *)
(* sonnets (Index), the multi-word search (Searcher.search), the result    *)
(* aggregation (SearchResult.combine_with) and the highlighter            *)
(* (SearchResult.ansi_highlight).                                          *)
(*                                                                         *)
(* A Python str is a sequence of one-character strings.  A Python list     *)
(* that the code mutates in place (LineMatch.spans, by list.extend) is a   *)
(* cell of `heap`, and a LineMatch holds the cell's reference, so that two *)
(* LineMatch objects made by LineMatch.copy share one list as they do in   *)
(* the program.  Lists that are only ever rebuilt (title_spans,            *)
(* line_matches) are values.                                               *)
(***************************************************************************)
EXTENDS Integers, Sequences, FiniteSets, TLC

VARIABLES
    stemmer,           \* the stemming function of the process-wide stemmer
    corpus,            \* the list of Sonnet objects given to Searcher(...)
    sonnets,           \* Index.sonnets: id -> Sonnet
    dictionary,        \* Index.dictionary: stem -> (id -> list of Posting)
    heap,              \* the span lists that are mutated in place
    pc,                \* position in Searcher.search / in the driver
    query,             \* Searcher.search: the query string
    search_mode,       \* Searcher.search: "AND" or "OR"
    words,             \* Searcher.search: query.split()
    wi,                \* Searcher.search: index of the word of this iteration
    results,           \* Searcher.search: the dict Index.search_for returned
    combined_results,  \* Searcher.search: the running dict
    prev_ids,          \* keys of combined_results before the latest word
    ret,               \* Searcher.search: the returned list
    objs,              \* combine driver: the SearchResult objects alive
    call,              \* combine driver: the latest combine_with call
    text,              \* ansi_highlight: text
    spans,             \* ansi_highlight: spans
    highlight_mode,    \* ansi_highlight: highlight_mode
    merged,            \* ansi_highlight: merged
    out                \* ansi_highlight: the pieces joined into the result

vars == <<stemmer, corpus, sonnets, dictionary, heap, pc, query, search_mode,
          words, wi, results, combined_results, prev_ids, ret, objs, call,
          text, spans, highlight_mode, merged, out>>

searchVars == <<query, search_mode, words, wi, results, combined_results,
                prev_ids, ret>>
indexVars == <<stemmer, corpus, sonnets, dictionary>>
combineVars == <<objs, call>>
highlightVars == <<text, spans, highlight_mode, merged, out>>

----------------------------------------------------------------------------
(* Bounds of the model. *)

\* the longest query, in words
MaxWords == 3
\* the number of SearchResult objects the combine driver keeps alive
MaxObjs == 4
\* the longest text given to ansi_highlight
MaxTextLen == 3
\* the longest span list given to ansi_highlight
MaxSpans == 3

----------------------------------------------------------------------------
(* Strings. *)

\* str(...) of characters: "a b" is <<"a", " ", "b">>
EmptyStr == <<>>

\* The characters of the model in code point order, for str comparison.
CharOrder == <<" ", "'", ",", ".", "1", "2", ":", "A", "B", "S", "a", "b", "s">>

CharCode(c) == CHOOSE k \in 1..Len(CharOrder) : CharOrder[k] = c

\* Python's str < str: lexicographic by code point, a proper prefix is smaller.
RECURSIVE StrLess(_, _)
StrLess(s, t) ==
    IF t = <<>> THEN FALSE
    ELSE IF s = <<>> THEN TRUE
    ELSE IF Head(s) = Head(t) THEN StrLess(Tail(s), Tail(t))
    ELSE CharCode(Head(s)) < CharCode(Head(t))

\* str.lower() on the characters of the model
Lower(c) ==
    CASE c = "A" -> "a"
      [] c = "B" -> "b"
      [] c = "S" -> "s"
      [] OTHER -> c

RECURSIVE MapLower(_)
MapLower(s) == IF s = <<>> THEN <<>> ELSE <<Lower(Head(s))>> \o MapLower(Tail(s))

IsStripped(c) == c \in {"'", ",", "."}
KeepChar(c) == ~IsStripped(c)

normalize_token(token) == SelectSeq(MapLower(token), KeepChar)

\* stemmer.stem: the stemmer is a library outside the repository; the model
\* draws it from the functions over StemDomain and leaves other tokens alone.
StemDomain == {<<>>, <<"a">>, <<"b">>}

stemmer_stem(t) == IF t \in DOMAIN stemmer THEN stemmer[t] ELSE t

normalized_stem_token(token) == stemmer_stem(normalize_token(token))

----------------------------------------------------------------------------
(* Index.tokenize: re.finditer(r"\S+", text), (token, 0-based start). *)

IsSpace(c) == c = " "

TokenStarts(t) ==
    {k \in 1..Len(t) : ~IsSpace(t[k]) /\ (k = 1 \/ IsSpace(t[k - 1]))}

\* the last character of the maximal run of non-whitespace that starts at k
TokenEnd(t, k) ==
    CHOOSE e \in k..Len(t) :
        /\ \A m \in k..e : ~IsSpace(t[m])
        /\ (e = Len(t) \/ IsSpace(t[e + 1]))

RECURSIVE TokensFrom(_, _)
TokensFrom(t, k) ==
    IF k > Len(t) THEN <<>>
    ELSE IF k \in TokenStarts(t)
         THEN <<<<SubSeq(t, k, TokenEnd(t, k)), k - 1>>>>
                  \o TokensFrom(t, TokenEnd(t, k) + 1)
         ELSE TokensFrom(t, k + 1)

tokenize(t) == TokensFrom(t, 1)

RECURSIVE TokenTexts(_)
TokenTexts(toks) ==
    IF toks = <<>> THEN <<>> ELSE <<Head(toks)[1]>> \o TokenTexts(Tail(toks))

\* str.split(): the whitespace-separated words
split(t) == TokenTexts(tokenize(t))

\* " ".join(ws)
RECURSIVE join(_)
join(ws) ==
    IF ws = <<>> THEN <<>>
    ELSE IF Len(ws) = 1 THEN Head(ws)
    ELSE Head(ws) \o <<" ">> \o join(Tail(ws))

----------------------------------------------------------------------------
(* Sonnet *)

Digits == <<"0", "1", "2", "3", "4", "5", "6", "7", "8", "9">>
DigitVal(c) == (CHOOSE k \in 1..10 : Digits[k] = c) - 1

RECURSIVE rstrip(_, _)
rstrip(s, c) ==
    IF s # <<>> /\ s[Len(s)] = c THEN rstrip(SubSeq(s, 1, Len(s) - 1), c) ELSE s

RECURSIVE int(_)
int(s) ==
    IF Len(s) = 1 THEN DigitVal(s[1])
    ELSE 10 * int(SubSeq(s, 1, Len(s) - 1)) + DigitVal(s[Len(s)])

\* Sonnet.__init__
Sonnet(sonnet_data) ==
    [title |-> sonnet_data.title,
     lines |-> sonnet_data.lines,
     id    |-> int(rstrip(split(sonnet_data.title)[2], ":"))]

----------------------------------------------------------------------------
(* Posting, Index.__init__, Index._add_token *)

\* Posting.line_no of a title token (None in the code; lines count from 1)
NoLine == 0

EmptyPostings == [x \in {} |-> <<>>]

Posting(line_no, position, original_token) ==
    [line_no |-> line_no, position |-> position, original_token |-> original_token]

\* the body of Index._add_token on the dictionary value d
AddPosting(d, doc_id, stem, line_no, position, token) ==
    LET postings == IF stem \in DOMAIN d THEN d[stem] ELSE EmptyPostings
        list == IF doc_id \in DOMAIN postings THEN postings[doc_id] ELSE <<>>
        added == [x \in DOMAIN postings \cup {doc_id} |->
                     IF x = doc_id
                     THEN Append(list, Posting(line_no, position, token))
                     ELSE postings[x]]
    IN  [s \in DOMAIN d \cup {stem} |-> IF s = stem THEN added ELSE d[s]]

\* Index._add_token (the dictionary given is evaluated once, then bound to d)
add_token(dict, doc_id, stem, line_no, position, token) ==
    CHOOSE r \in {AddPosting(d, doc_id, stem, line_no, position, token) :
                     d \in {dict}} : TRUE

\* the loop over the tokens of one text (the title, or one line)
RECURSIVE IndexTokens(_, _, _, _)
IndexTokens(dict, doc_id, line_no, toks) ==
    IF toks = <<>> THEN dict
    ELSE LET token == Head(toks)[1]
             pos   == Head(toks)[2]
             stem  == normalized_stem_token(token)
         IN  IndexTokens(IF stem # EmptyStr
                         THEN add_token(dict, doc_id, stem, line_no, pos, token)
                         ELSE dict,
                         doc_id, line_no, Tail(toks))

\* for line_no, line in enumerate(sonnet.lines, start=1)
RECURSIVE IndexLines(_, _, _)
IndexLines(dict, sonnet, line_no) ==
    IF line_no > Len(sonnet.lines) THEN dict
    ELSE IndexLines(IndexTokens(dict, sonnet.id, line_no,
                                tokenize(sonnet.lines[line_no])),
                    sonnet, line_no + 1)

IndexSonnet(dict, sonnet) ==
    IndexLines(IndexTokens(dict, sonnet.id, NoLine, tokenize(sonnet.title)),
               sonnet, 1)

\* for sonnet in sonnets
RECURSIVE BuildDictionary(_, _)
BuildDictionary(dict, list) ==
    IF list = <<>> THEN dict
    ELSE BuildDictionary(IndexSonnet(dict, Head(list)), Tail(list))

EmptyDict == [x \in {} |-> <<>>]

\* self.sonnets = {sonnet.id: sonnet for sonnet in sonnets}: the last one wins
SonnetsById(list) ==
    [id \in {list[k].id : k \in 1..Len(list)} |->
        list[CHOOSE k \in 1..Len(list) :
                 /\ list[k].id = id
                 /\ \A m \in (k + 1)..Len(list) : list[m].id # id]]

----------------------------------------------------------------------------
(* LineMatch, SearchResult *)

\* LineMatch(line_no, text, spans): spans is a reference into heap
LineMatch(line_no, line_text, spans_ref) ==
    [line_no |-> line_no, text |-> line_text, spans |-> spans_ref]

\* LineMatch.copy: a new LineMatch over the SAME spans list
LineMatch_copy(lm) == LineMatch(lm.line_no, lm.text, lm.spans)

SearchResult(title, title_spans, line_matches, matches) ==
    [title |-> title, title_spans |-> title_spans,
     line_matches |-> line_matches, matches |-> matches]

\* tuple comparison of two spans, as sorted() compares them
SpanLE(x, y) == x[1] < y[1] \/ (x[1] = y[1] /\ x[2] <= y[2])

RECURSIVE InsertSpan(_, _)
InsertSpan(s, x) ==
    IF s = <<>> THEN <<x>>
    ELSE IF SpanLE(x, Head(s)) THEN <<x>> \o s
    ELSE <<Head(s)>> \o InsertSpan(Tail(s), x)

\* a sorted() that leaves the list as it is
sorted_unsorted(s) == s

\* sorted(spans)
RECURSIVE sorted(_)
sorted(s) == IF s = <<>> THEN <<>> ELSE InsertSpan(sorted(Tail(s)), Head(s))

\* {lm.line_no: lm.copy() for lm in self.line_matches}
LinesByNo(line_matches) ==
    [ln \in {line_matches[k].line_no : k \in 1..Len(line_matches)} |->
        LineMatch_copy(
            line_matches[CHOOSE k \in 1..Len(line_matches) :
                /\ line_matches[k].line_no = ln
                /\ \A m \in (k + 1)..Len(line_matches) :
                       line_matches[m].line_no # ln])]

\* for lm in other.line_matches: extend the list in place, or add a copy
RECURSIVE MergeLines(_, _, _)
MergeLines(h, lines_by_no, others) ==
    IF others = <<>> THEN [heap |-> h, lines |-> lines_by_no]
    ELSE LET lm == Head(others)
             ln == lm.line_no
         IN  IF ln \in DOMAIN lines_by_no
             THEN MergeLines([h EXCEPT ![lines_by_no[ln].spans] = @ \o h[lm.spans]],
                             lines_by_no, Tail(others))
             ELSE MergeLines(h,
                             [n \in DOMAIN lines_by_no \cup {ln} |->
                                 IF n = ln THEN LineMatch_copy(lm)
                                 ELSE lines_by_no[n]],
                             Tail(others))

\* sorted(lines_by_no.values(), key=lambda lm: lm.line_no)
RECURSIVE SortedByLineNo(_)
SortedByLineNo(lines_by_no) ==
    IF DOMAIN lines_by_no = {} THEN <<>>
    ELSE LET lo == CHOOSE n \in DOMAIN lines_by_no :
                       \A m \in DOMAIN lines_by_no : n <= m
         IN  <<lines_by_no[lo]>>
             \o SortedByLineNo([n \in DOMAIN lines_by_no \ {lo} |-> lines_by_no[n]])

\* a combine_with that keeps the matches of self and forgets those of other
combine_with_own_matches(h, self, other) ==
    LET m == MergeLines(h, LinesByNo(self.line_matches), other.line_matches)
    IN  [heap |-> m.heap,
         res  |-> SearchResult(self.title,
                               sorted(self.title_spans \o other.title_spans),
                               SortedByLineNo(m.lines),
                               self.matches)]

\* SearchResult.combine_with: the new heap and the new SearchResult
combine_with(h, self, other) ==
    LET m == MergeLines(h, LinesByNo(self.line_matches), other.line_matches)
    IN  [heap |-> m.heap,
         res  |-> SearchResult(self.title,
                               sorted(self.title_spans \o other.title_spans),
                               SortedByLineNo(m.lines),
                               self.matches + other.matches)]

----------------------------------------------------------------------------
(* Index.search_for *)

PostingSpan(posting) ==
    <<posting.position, posting.position + Len(posting.original_token)>>

\* the loop over the postings of one document; k = 1 is "doc_id not in results"
RECURSIVE DocResult(_, _, _, _, _)
DocResult(h, sonnet, postings, k, acc) ==
    IF k > Len(postings) THEN [heap |-> h, res |-> acc]
    ELSE LET posting == postings[k]
             span == PostingSpan(posting)
             isTitle == posting.line_no = NoLine
             h1 == IF isTitle THEN h ELSE Append(h, <<span>>)
             sr == IF isTitle
                   THEN SearchResult(sonnet.title, <<span>>, <<>>, 1)
                   ELSE SearchResult(sonnet.title, <<>>,
                            <<LineMatch(posting.line_no,
                                        sonnet.lines[posting.line_no],
                                        Len(h) + 1)>>, 1)
         IN  IF k = 1 THEN DocResult(h1, sonnet, postings, k + 1, sr)
             ELSE LET c == combine_with(h1, acc, sr)
                  IN  DocResult(c.heap, sonnet, postings, k + 1, c.res)

EmptyResults == [x \in {} |-> <<>>]

\* for doc_id, postings in postings_list.items(), in corpus order
RECURSIVE DocLoop(_, _, _, _)
DocLoop(h, postings_list, k, acc) ==
    IF k > Len(corpus) THEN [heap |-> h, results |-> acc]
    ELSE LET doc_id == corpus[k].id
         IN  IF doc_id \in DOMAIN postings_list /\ doc_id \notin DOMAIN acc
             THEN LET r == DocResult(h, sonnets[doc_id], postings_list[doc_id],
                                     1, <<>>)
                  IN  DocLoop(r.heap, postings_list, k + 1,
                              [d \in DOMAIN acc \cup {doc_id} |->
                                  IF d = doc_id THEN r.res ELSE acc[d]])
             ELSE DocLoop(h, postings_list, k + 1, acc)

Index_search_for(h, word) ==
    LET token == normalized_stem_token(word)
    IN  IF token = EmptyStr THEN [heap |-> h, results |-> EmptyResults]
        ELSE IF token \in DOMAIN dictionary
        THEN DocLoop(h, dictionary[token], 1, EmptyResults)
        ELSE [heap |-> h, results |-> EmptyResults]

----------------------------------------------------------------------------
(* Searcher.search *)

\* the keys of a dict of documents as a list, in corpus order
RECURSIVE KeysFrom(_, _)
KeysFrom(d, k) ==
    IF k > Len(corpus) THEN <<>>
    ELSE IF corpus[k].id \in DOMAIN d
              /\ \A m \in 1..(k - 1) : corpus[m].id # corpus[k].id
         THEN <<corpus[k].id>> \o KeysFrom(d, k + 1)
         ELSE KeysFrom(d, k + 1)

Keys(d) == KeysFrom(d, 1)

\* search_mode == "OR": for doc_id, r in results.items()
RECURSIVE OrLoop(_, _, _, _)
OrLoop(h, combined, res, ids) ==
    IF ids = <<>> THEN [heap |-> h, combined |-> combined]
    ELSE LET doc_id == Head(ids)
             r == res[doc_id]
         IN  IF doc_id \in DOMAIN combined
             THEN LET c == combine_with(h, combined[doc_id], r)
                  IN  OrLoop(c.heap, [combined EXCEPT ![doc_id] = c.res],
                             res, Tail(ids))
             ELSE OrLoop(h,
                         [d \in DOMAIN combined \cup {doc_id} |->
                             IF d = doc_id THEN r ELSE combined[d]],
                         res, Tail(ids))

\* an OR branch that overwrites the running result of a document
OrCombineOverwrite(h, combined, res) ==
    [heap |-> h,
     combined |-> [d \in DOMAIN combined \cup DOMAIN res |->
                      IF d \in DOMAIN res THEN res[d] ELSE combined[d]]]

OrCombine(h, combined, res) == OrLoop(h, combined, res, Keys(res))

\* else: for doc_id in combined_results ... for d in deleted
RECURSIVE AndLoop(_, _, _, _)
AndLoop(h, combined, res, ids) ==
    IF ids = <<>> THEN [heap |-> h, combined |-> combined]
    ELSE LET doc_id == Head(ids)
         IN  IF doc_id \in DOMAIN res
             THEN LET c == combine_with(h, combined[doc_id], res[doc_id])
                  IN  AndLoop(c.heap, [combined EXCEPT ![doc_id] = c.res],
                              res, Tail(ids))
             ELSE AndLoop(h,
                          [d \in DOMAIN combined \ {doc_id} |-> combined[d]],
                          res, Tail(ids))

AndCombine(h, combined, res) == AndLoop(h, combined, res, Keys(combined))

\* "if not combined_results": an empty running dict is (re)seeded
IsFirst(combined) == DOMAIN combined = {}

\* the body of the loop after the lookup (lines 234-252)
CombineStep(h, combined, res, mode) ==
    IF IsFirst(combined) THEN [heap |-> h, combined |-> res]
    ELSE IF mode = "OR" THEN OrCombine(h, combined, res)
    ELSE AndCombine(h, combined, res)

\* the lookup of one word (lines 222-223): the word is stemmed here, and
\* again by Index.search_for
LookupStep(h, word) == Index_search_for(h, normalized_stem_token(word))

\* sorted(results, key=lambda sr: sr.title); the titles of different
\* documents differ, the id being a part of the title
RECURSIVE SortedByTitle(_)
SortedByTitle(rs) ==
    IF rs = {} THEN <<>>
    ELSE LET lo == CHOOSE r \in rs : \A q \in rs : ~StrLess(q.title, r.title)
         IN  <<lo>> \o SortedByTitle(rs \ {lo})

Values(d) == {d[k] : k \in DOMAIN d}

----------------------------------------------------------------------------
(* The inputs of the search: the stemmers, the corpora, the queries. *)

\* the stemmers of the model: the stem of the empty string is empty
Stemmers == {f \in [StemDomain -> StemDomain] : f[EmptyStr] = EmptyStr}

\* the line lists of a sonnet: one or two lines, with repeated words, upper
\* case, punctuation and a token that is only punctuation
LineLists ==
    { << <<"a", " ", "b">> >>,
      << <<"A", " ", "a", ".">>, <<" ", "b", " ", "a">> >>,
      << <<".">>, <<"b", ",">> >> }

Titles == << <<"S", " ", "1", ":", " ", "a">>,
             <<"S", " ", "2", ":", " ", "B", ".">> >>

Corpora ==
    { <<Sonnet([title |-> Titles[1], lines |-> l1]),
        Sonnet([title |-> Titles[2], lines |-> l2])>> :
          l1 \in LineLists, l2 \in LineLists }

QueryWords == {<<"a">>, <<"b">>, <<".">>}

RECURSIVE SeqsUpTo(_, _)
SeqsUpTo(S, n) ==
    IF n = 0 THEN {<<>>}
    ELSE LET shorter == SeqsUpTo(S, n - 1)
         IN  shorter \cup {Append(s, x) : s \in {t \in shorter : Len(t) = n - 1}, x \in S}

Queries == {join(ws) : ws \in SeqsUpTo(QueryWords, MaxWords)}

\* no combine_with call has been made yet
NoCall == [made |-> FALSE, self |-> 0, other |-> 0, result |-> 0, before |-> <<>>]

----------------------------------------------------------------------------
(* The search specification: Searcher(sonnets), then one search(query, mode). *)

IdleOthers ==
    /\ objs = <<>>
    /\ call = NoCall
    /\ text = <<>>
    /\ spans = <<>>
    /\ highlight_mode = "DEFAULT"
    /\ merged = <<>>
    /\ out = <<>>

\* Searcher.__init__ -> Index.__init__
Init ==
    /\ stemmer \in Stemmers
    /\ corpus \in Corpora
    /\ sonnets = SonnetsById(corpus)
    /\ dictionary = BuildDictionary(EmptyDict, corpus)
    /\ heap = <<>>
    /\ pc = "idle"
    /\ query = <<>>
    /\ search_mode = "AND"
    /\ words = <<>>
    /\ wi = 1
    /\ results = EmptyResults
    /\ combined_results = EmptyResults
    /\ prev_ids = {}
    /\ ret = <<>>
    /\ IdleOthers

\* search(query, search_mode) is called: words = query.split()
StartSearch ==
    /\ pc = "idle"
    /\ \E q \in Queries, mode \in {"AND", "OR"} :
          /\ query' = q
          /\ search_mode' = mode
          /\ words' = split(q)
    /\ wi' = 1
    /\ combined_results' = EmptyResults
    /\ results' = EmptyResults
    /\ prev_ids' = {}
    /\ pc' = "lookup"
    /\ UNCHANGED <<indexVars, heap, ret, combineVars, highlightVars>>

\* for word in words: token = ...; results = self.index.search_for(token)
Lookup ==
    /\ pc = "lookup"
    /\ wi <= Len(words)
    /\ LET r == LookupStep(heap, words[wi])
       IN  /\ results' = r.results
           /\ heap' = r.heap
    /\ pc' = "combine"
    /\ UNCHANGED <<indexVars, query, search_mode, words, wi, combined_results,
                   prev_ids, ret, combineVars, highlightVars>>

\* the rest of the loop body
Combine ==
    /\ pc = "combine"
    /\ LET c == CombineStep(heap, combined_results, results, search_mode)
       IN  /\ combined_results' = c.combined
           /\ heap' = c.heap
    /\ prev_ids' = DOMAIN combined_results
    /\ wi' = wi + 1
    /\ pc' = "lookup"
    /\ UNCHANGED <<indexVars, query, search_mode, words, results, ret,
                   combineVars, highlightVars>>

\* after the loop: return sorted(results, key=...)
Return ==
    /\ pc = "lookup"
    /\ wi > Len(words)
    /\ ret' = SortedByTitle(Values(combined_results))
    /\ pc' = "done"
    /\ UNCHANGED <<indexVars, heap, query, search_mode, words, wi, results,
                   combined_results, prev_ids, combineVars, highlightVars>>

Next == StartSearch \/ Lookup \/ Combine \/ Return

Spec == Init /\ [][Next]_vars

----------------------------------------------------------------------------
(* The combine specification: SearchResult objects about one document, as   *)
(* Index.search_for returns them, and combine_with calls on them.           *)

\* what a SearchResult holds, its span lists read through the heap
RECURSIVE LineSpans(_, _)
LineSpans(h, line_matches) ==
    IF line_matches = <<>> THEN <<>>
    ELSE <<[line_no |-> Head(line_matches).line_no,
            text    |-> Head(line_matches).text,
            spans   |-> h[Head(line_matches).spans]]>>
         \o LineSpans(h, Tail(line_matches))

Deref(h, sr) ==
    [title |-> sr.title, title_spans |-> sr.title_spans,
     line_matches |-> LineSpans(h, sr.line_matches), matches |-> sr.matches]

\* the corpus of the combine driver: one sonnet of two lines that share words
CombineCorpus ==
    <<Sonnet([title |-> Titles[1],
              lines |-> << <<"a", " ", "b">>, <<"b", " ", "a", " ", "a">> >>])>>

\* the document the results of the combine driver are about
CombineDoc == CombineCorpus[1].id

IdentityStemmer == [x \in StemDomain |-> x]

InitCombine ==
    /\ stemmer = IdentityStemmer
    /\ corpus = CombineCorpus
    /\ sonnets = SonnetsById(corpus)
    /\ dictionary = BuildDictionary(EmptyDict, corpus)
    /\ heap = <<>>
    /\ pc = "combine_driver"
    /\ query = <<>>
    /\ search_mode = "AND"
    /\ words = <<>>
    /\ wi = 1
    /\ results = EmptyResults
    /\ combined_results = EmptyResults
    /\ prev_ids = {}
    /\ ret = <<>>
    /\ objs = <<>>
    /\ call = NoCall
    /\ text = <<>>
    /\ spans = <<>>
    /\ highlight_mode = "DEFAULT"
    /\ merged = <<>>
    /\ out = <<>>

\* r = index.search_for(w)[doc]: a new result object about the document
Fetch ==
    /\ pc = "combine_driver"
    /\ Len(objs) < MaxObjs
    /\ \E w \in QueryWords :
          LET r == Index_search_for(heap, w)
          IN  /\ CombineDoc \in DOMAIN r.results
              /\ heap' = r.heap
              /\ objs' = Append(objs, r.results[CombineDoc])
    /\ UNCHANGED <<indexVars, pc, searchVars, call, highlightVars>>

\* c = objs[i].combine_with(objs[j])
CombineObjs ==
    /\ pc = "combine_driver"
    /\ Len(objs) < MaxObjs
    /\ \E i \in 1..Len(objs), j \in 1..Len(objs) :
          LET c == combine_with(heap, objs[i], objs[j])
          IN  /\ heap' = c.heap
              /\ objs' = Append(objs, c.res)
              /\ call' = [made |-> TRUE, self |-> i, other |-> j,
                          result |-> Len(objs) + 1,
                          before |-> [k \in 1..Len(objs) |-> Deref(heap, objs[k])]]
    /\ UNCHANGED <<indexVars, pc, searchVars, highlightVars>>

NextCombine == Fetch \/ CombineObjs

SpecCombine == InitCombine /\ [][NextCombine]_vars

----------------------------------------------------------------------------
(* SearchResult.ansi_highlight *)

Max(a, b) == IF a >= b THEN a ELSE b
Min(a, b) == IF a <= b THEN a ELSE b

\* text[i:j] for 0 <= i, 0 <= j
Slice(t, i, j) == SubSeq(t, i + 1, Min(j, Len(t)))

\* a merge loop that takes the end of the latest span, not the larger end
RECURSIVE MergeLoopLastEnd(_, _, _, _)
MergeLoopLastEnd(rest, current_start, current_end, acc) ==
    IF rest = <<>> THEN Append(acc, <<current_start, current_end>>)
    ELSE LET s == Head(rest)[1]
             e == Head(rest)[2]
         IN  IF s <= current_end
             THEN MergeLoopLastEnd(Tail(rest), current_start, e, acc)
             ELSE MergeLoopLastEnd(Tail(rest), s, e,
                                   Append(acc, <<current_start, current_end>>))

\* the merge loop over spans[1:], with (current_start, current_end)
RECURSIVE MergeLoop(_, _, _, _)
MergeLoop(rest, current_start, current_end, acc) ==
    IF rest = <<>> THEN Append(acc, <<current_start, current_end>>)
    ELSE LET s == Head(rest)[1]
             e == Head(rest)[2]
         IN  IF s <= current_end
             THEN MergeLoop(Tail(rest), current_start, Max(current_end, e), acc)
             ELSE MergeLoop(Tail(rest), s, e,
                            Append(acc, <<current_start, current_end>>))

\* lines 277-288, for a non-empty list of spans
MergeSpans(sp) ==
    LET srt == sorted(sp)
    IN  MergeLoop(Tail(srt), Head(srt)[1], Head(srt)[2], <<>>)

\* the two escape sequences that open a highlight, and the one that ends it
AnsiDefault == "ESC[43mESC[30m"
AnsiGreen == "ESC[1;92m"
AnsiReset == "ESC[0m"

AnsiSequence(mode) == IF mode = "DEFAULT" THEN AnsiDefault ELSE AnsiGreen

\* the loop that builds `out`; a marker is one element of the joined string
RECURSIVE BuildOut(_, _, _, _, _)
BuildOut(t, mrg, i, ansi_sequence, acc) ==
    IF mrg = <<>> THEN acc \o Slice(t, i, Len(t))
    ELSE LET s == Head(mrg)[1]
             e == Head(mrg)[2]
         IN  BuildOut(t, Tail(mrg), e, ansi_sequence,
                      acc \o Slice(t, i, s) \o <<ansi_sequence>>
                          \o Slice(t, s, e) \o <<AnsiReset>>)

ansi_highlight(t, sp, mode) ==
    IF sp = <<>> THEN t
    ELSE BuildOut(t, MergeSpans(sp), 0, AnsiSequence(mode), <<>>)

----------------------------------------------------------------------------
(* The highlight specification: one call of ansi_highlight. *)

Letters == <<"a", "b", "c", "d", "e", "f", "g">>

\* the text of length n of the model
TextOfLen(n) == [k \in 1..n |-> Letters[((k - 1) % Len(Letters)) + 1]]

\* the spans [start, end) with 0 <= start < end <= n
SpansIn(n) == {x \in (0..n) \X (0..n) : x[1] < x[2]}

\* the scenario of the specification: spans (7,11) and (9,15) over 15 characters
ScenarioSpans == << <<7, 11>>, <<9, 15>> >>
ScenarioText == TextOfLen(15)

HighlightInputs ==
    UNION {{[text |-> TextOfLen(n), spans |-> sp] :
               sp \in SeqsUpTo(SpansIn(n), MaxSpans)} : n \in 0..MaxTextLen}

InitHighlight ==
    /\ stemmer = IdentityStemmer
    /\ corpus = <<>>
    /\ sonnets = EmptyResults
    /\ dictionary = EmptyDict
    /\ heap = <<>>
    /\ pc = "highlight"
    /\ query = <<>>
    /\ search_mode = "AND"
    /\ words = <<>>
    /\ wi = 1
    /\ results = EmptyResults
    /\ combined_results = EmptyResults
    /\ prev_ids = {}
    /\ ret = <<>>
    /\ objs = <<>>
    /\ call = NoCall
    /\ \/ \E inp \in HighlightInputs :
             /\ text = inp.text
             /\ spans = inp.spans
       \/ /\ text = ScenarioText
          /\ spans = ScenarioSpans
    /\ highlight_mode \in {"DEFAULT", "GREEN"}
    /\ merged = <<>>
    /\ out = <<>>

\* ansi_highlight(text, spans, highlight_mode) runs to its return
Highlight ==
    /\ pc = "highlight"
    /\ merged' = IF spans = <<>> THEN <<>> ELSE MergeSpans(spans)
    /\ out' = ansi_highlight(text, spans, highlight_mode)
    /\ pc' = "highlighted"
    /\ UNCHANGED <<indexVars, heap, searchVars, combineVars, text, spans,
                   highlight_mode>>

NextHighlight == Highlight

SpecHighlight == InitHighlight /\ [][NextHighlight]_vars

----------------------------------------------------------------------------
(* What the claims about Searcher.search speak of. *)

\* Searcher.search run to the end of its loop on the words ws
RECURSIVE RunSearch(_, _, _, _)
RunSearch(h, combined, ws, mode) ==
    IF ws = <<>> THEN [heap |-> h, combined |-> combined]
    ELSE LET l == LookupStep(h, Head(ws))
             c == CombineStep(l.heap, combined, l.results, mode)
         IN  RunSearch(c.heap, c.combined, Tail(ws), mode)

SearchOf(ws, mode) == RunSearch(heap, EmptyResults, ws, mode)

\* a dict of results with every span list read through the heap
DerefAll(r) == [d \in DOMAIN r.combined |-> Deref(r.heap, r.combined[d])]

RetTitles == {ret[k].title : k \in 1..Len(ret)}
TitlesOf(ids) == {sonnets[d].title : d \in ids}

\* the documents Index.search_for returned to the search for the word w
WordDocs(w) == DOMAIN LookupStep(heap, w).results

\* the tokens of a document: those of its title and of its lines
TextTokens(t) == {tokenize(t)[k][1] : k \in 1..Len(tokenize(t))}
DocTokens(d) ==
    TextTokens(sonnets[d].title)
        \cup UNION {TextTokens(sonnets[d].lines[n]) : n \in 1..Len(sonnets[d].lines)}

\* the document holds a token whose stem is not empty and is the stem of w
HasTokenWithStemOf(d, w) ==
    \E t \in DocTokens(d) :
        /\ normalized_stem_token(t) # EmptyStr
        /\ normalized_stem_token(t) = normalized_stem_token(w)

\* the number of postings of document d under the stem of the word w
PostingCount(d, w) ==
    LET stem == normalized_stem_token(w)
    IN  IF stem # EmptyStr /\ stem \in DOMAIN dictionary
               /\ d \in DOMAIN dictionary[stem]
        THEN Len(dictionary[stem][d])
        ELSE 0

RECURSIVE SumPostings(_, _)
SumPostings(d, ws) ==
    IF ws = <<>> THEN 0 ELSE PostingCount(d, Head(ws)) + SumPostings(d, Tail(ws))

Without(ws, k) == SubSeq(ws, 1, k - 1) \o SubSeq(ws, k + 1, Len(ws))

RECURSIVE SumSpans(_, _)
SumSpans(h, line_matches) ==
    IF line_matches = <<>> THEN 0
    ELSE Len(h[Head(line_matches).spans]) + SumSpans(h, Tail(line_matches))

\* matches == len(title_spans) + sum(len(lm.spans) for lm in line_matches)
CountsAgree(h, sr) ==
    sr.matches = Len(sr.title_spans) + SumSpans(h, sr.line_matches)

----------------------------------------------------------------------------
(* The claims about Searcher.search, under Spec. *)

\* C1: in AND mode the documents of the returned list are exactly those that
\* every query word matches: the intersection of the document sets that
\* Index.search_for returned for the words, whatever the order of the words.
C1_AndIsIntersection ==
    (pc = "done" /\ search_mode = "AND" /\ Len(words) >= 1) =>
        RetTitles = TitlesOf({d \in DOMAIN sonnets :
                                 \A k \in 1..Len(words) : d \in WordDocs(words[k])})

\* C2: every document of the AND-mode result of a query is in the OR-mode
\* result of the same query over the same corpus, with a matches count in OR
\* that is at least its matches count in AND.
C2_AndWithinOr ==
    pc = "done" =>
        LET a == IF search_mode = "AND" THEN combined_results
                 ELSE SearchOf(words, "AND").combined
            o == IF search_mode = "OR" THEN combined_results
                 ELSE SearchOf(words, "OR").combined
        IN  /\ DOMAIN a \subseteq DOMAIN o
            /\ \A d \in DOMAIN a : o[d].matches >= a[d].matches

\* a search of two or more words whose AND result is not empty and holds
\* fewer documents than its OR result
C2_Witness ==
    /\ pc = "done"
    /\ search_mode = "AND"
    /\ Len(words) >= 2
    /\ DOMAIN combined_results # {}
    /\ DOMAIN combined_results # DOMAIN SearchOf(words, "OR").combined

\* C3: every SearchResult that Index.search_for returns, and every one in
\* the list that Searcher.search returns, has matches equal to the number of
\* its title spans plus the number of spans of its line matches, duplicates
\* counted.
C3_MatchesCountSpans ==
    /\ pc = "combine" => \A d \in DOMAIN results : CountsAgree(heap, results[d])
    /\ pc = "done" => \A k \in 1..Len(ret) : CountsAgree(heap, ret[k])

\* a returned result of three or more matches, in the title and twice or
\* more in one line
C3_Witness ==
    /\ pc = "done"
    /\ \E k \in 1..Len(ret) :
          /\ ret[k].matches >= 3
          /\ ret[k].title_spans # <<>>
          /\ \E n \in 1..Len(ret[k].line_matches) :
                Len(heap[ret[k].line_matches[n].spans]) >= 2

\* C5: in OR mode the documents returned are those that some query word
\* matches, the matches of each is the sum over the query words of its
\* posting count for the word, and a word whose stem is not indexed changes
\* nothing: the result is that of the query without the word.
C5_OrIsUnion ==
    (pc = "done" /\ search_mode = "OR") =>
        /\ DOMAIN combined_results =
              {d \in DOMAIN sonnets :
                  \E k \in 1..Len(words) : PostingCount(d, words[k]) > 0}
        /\ \A d \in DOMAIN combined_results :
              combined_results[d].matches = SumPostings(d, words)
        /\ \A k \in 1..Len(words) :
              normalized_stem_token(words[k]) \notin DOMAIN dictionary =>
                  DerefAll(SearchOf(Without(words, k), "OR"))
                      = DerefAll([heap |-> heap, combined |-> combined_results])

\* C6: a one-word query w returns document d exactly when the title or a
\* line of d holds a token whose stem is not empty and equals stem(w).
C6_OneWordMatchesStem ==
    (pc = "done" /\ Len(words) = 1) =>
        \A d \in DOMAIN sonnets :
            (sonnets[d].title \in RetTitles) <=> HasTokenWithStemOf(d, words[1])

\* C9: in AND mode, after each word other than the first, the ids of the
\* running dict are among those it held before the word.
C9_AndOnlyShrinks ==
    (search_mode = "AND" /\ pc = "lookup" /\ wi > 2) =>
        DOMAIN combined_results \subseteq prev_ids

----------------------------------------------------------------------------
(* The claims about SearchResult.combine_with, under SpecCombine. *)

Range(s) == {s[k] : k \in 1..Len(s)}

\* the multiset of the elements of a list
BagOf(s) == [e \in Range(s) |-> Cardinality({k \in 1..Len(s) : s[k] = e})]

LineNos(v) == {v.line_matches[k].line_no : k \in 1..Len(v.line_matches)}

SpansOfLine(v, ln) ==
    LET k == CHOOSE n \in 1..Len(v.line_matches) : v.line_matches[n].line_no = ln
    IN  v.line_matches[k].spans

\* two results hold the same matches and the same multisets of spans
SameAccumulated(v1, v2) ==
    /\ v1.matches = v2.matches
    /\ BagOf(v1.title_spans) = BagOf(v2.title_spans)
    /\ LineNos(v1) = LineNos(v2)
    /\ \A ln \in LineNos(v1) : BagOf(SpansOfLine(v1, ln)) = BagOf(SpansOfLine(v2, ln))

\* combine(a, b), then combine(b, a), on the same objects
Commutes(a, b) ==
    LET ab == combine_with(heap, a, b)
        v1 == Deref(ab.heap, ab.res)
        ba == combine_with(ab.heap, b, a)
        v2 == Deref(ba.heap, ba.res)
    IN  SameAccumulated(v1, v2)

\* combine(combine(a, b), c), then combine(a, combine(b, c)), on the same objects
Associates(a, b, c) ==
    LET ab   == combine_with(heap, a, b)
        abc  == combine_with(ab.heap, ab.res, c)
        v1   == Deref(abc.heap, abc.res)
        bc   == combine_with(abc.heap, b, c)
        a_bc == combine_with(bc.heap, a, bc.res)
        v2   == Deref(a_bc.heap, a_bc.res)
    IN  SameAccumulated(v1, v2)

\* C4: combine_with is commutative and associative in matches and in the
\* multisets of title spans and of spans per line, for any results a, b, c
\* about one document, whichever side is evaluated first on the objects.
C4_CombineCommutesAssociates ==
    \A i, j, k \in 1..Len(objs) :
        (i # j /\ j # k /\ i # k) =>
            /\ Commutes(objs[i], objs[j])
            /\ Associates(objs[i], objs[j], objs[k])

\* C10: a combine_with call leaves its operands as they were: matches,
\* title_spans and the spans of every line match of each object that was
\* alive before the call are the same after it.
C10_OperandsUnchanged ==
    (call.made /\ call.self # call.other) =>
        \A k \in 1..Len(call.before) : Deref(heap, objs[k]) = call.before[k]

----------------------------------------------------------------------------
(* The claims about SearchResult.ansi_highlight, under SpecHighlight. *)

Perms(n) == {p \in [1..n -> 1..n] : \A a, b \in 1..n : p[a] = p[b] => a = b}

Permuted(s, p) == [k \in 1..Len(s) |-> s[p[k]]]

\* C7: the merging of spans is idempotent and independent of the order of
\* its input: merging the merged list returns it, every permutation of the
\* input merges to the same list, and (7,11), (9,15) merge to (7,15).
C7_MergeIdempotentAnyOrder ==
    (pc = "highlighted" /\ spans # <<>>) =>
        /\ MergeSpans(merged) = merged
        /\ \A p \in Perms(Len(spans)) : MergeSpans(Permuted(spans, p)) = merged
        /\ spans = ScenarioSpans => merged = << <<7, 15>> >>

\* an input that is not sorted and of which two spans merge into one
C7_Witness ==
    /\ pc = "highlighted"
    /\ spans # sorted(spans)
    /\ Len(merged) >= 2
    /\ Len(merged) < Len(spans)

IsMarker(x) == x \in {AnsiDefault, AnsiGreen, AnsiReset}
NotMarker(x) == ~IsMarker(x)

\* the 0-based positions of the text characters of o that lie between an
\* opening marker and the next reset; pos is the position of the next character
RECURSIVE InsideFrom(_, _, _)
InsideFrom(o, pos, inside) ==
    IF o = <<>> THEN {}
    ELSE IF Head(o) = AnsiReset THEN InsideFrom(Tail(o), pos, FALSE)
    ELSE IF IsMarker(Head(o)) THEN InsideFrom(Tail(o), pos, TRUE)
    ELSE (IF inside THEN {pos} ELSE {}) \cup InsideFrom(Tail(o), pos + 1, inside)

Covered(pos) == \E k \in 1..Len(spans) : spans[k][1] <= pos /\ pos < spans[k][2]

\* C8: the result is the text once its markers are removed; opening and
\* reset markers alternate, an opening one first and a reset last; a
\* character lies between an opening marker and its reset exactly when a
\* span covers its position; with no spans the text is returned as it is.
C8_HighlightWrapsCovered ==
    pc = "highlighted" =>
        LET marks == SelectSeq(out, IsMarker)
        IN  /\ SelectSeq(out, NotMarker) = text
            /\ Len(marks) % 2 = 0
            /\ \A k \in 1..Len(marks) :
                  marks[k] = IF k % 2 = 1 THEN AnsiSequence(highlight_mode)
                             ELSE AnsiReset
            /\ \A pos \in 0..(Len(text) - 1) :
                  pos \in InsideFrom(out, 0, FALSE) <=> Covered(pos)
            /\ spans = <<>> => out = text

\* a call whose spans overlap and leave a gap: fewer highlights than spans
C8_Witness ==
    /\ pc = "highlighted"
    /\ Len(merged) >= 2
    /\ Len(spans) > Len(merged)
    /\ Len(out) = Len(text) + 2 * Len(merged)

====
